---- MODULE Spec2Model ----
(***************************************************************************)
(* HistoricalTimelineRenderer (src/historical_timelines/renderer.py).      *)
(*                                                                         *)
(* The renderer holds a timeline and a few styling fields, builds a bokeh  *)
(* figure from the timeline's event dictionary and period list, and either *)
(* shows or saves it.  The figure is modelled as a record of what the      *)
(* renderer puts on it: its y_range, its glyph renderers, its layouts      *)
(* (label sets), its tools and its x-axis tick formatter.                  *)
(***************************************************************************)
EXTENDS Integers, Sequences, FiniteSets, TLC

\* ------------------------------------------------------------------ bounds
\* longest 'label' column of an event dictionary
MaxEvents == 3
\* longest period list
MaxPeriods == 2
\* axis ticks formatted are -MaxTick .. MaxTick
MaxTick == 25
\* glyph/label-set calls a client makes on a figure after render_timeline
MaxCalls == 1

\* ----------------------------------------------------------------- values
\* Python's None
None == [kind |-> "None"]

Range(s) == {s[i] : i \in DOMAIN s}

\* x in lst, for a Python list
In(x, lst) == \E i \in DOMAIN lst : lst[i] = x

Digit(d) ==
    CASE d = 0 -> "0" [] d = 1 -> "1" [] d = 2 -> "2" [] d = 3 -> "3"
      [] d = 4 -> "4" [] d = 5 -> "5" [] d = 6 -> "6" [] d = 7 -> "7"
      [] d = 8 -> "8" [] d = 9 -> "9"

\* str(i): the decimal text of an integer (also what JavaScript's
\* number + string concatenation gives for an integer)
RECURSIVE str(_)
str(n) ==
    IF n < 0 THEN "-" \o str(-n)
    ELSE IF n < 10 THEN Digit(n)
    ELSE str(n \div 10) \o Digit(n % 10)

\* Math.abs
abs(n) == IF n < 0 THEN -n ELSE n

\* ------------------------------------------------- the timeline (inputs)
\* The labels an event may carry: two of them look like period row ids.
Labels == {"p0", "p1", "a"}

LabelColumns == UNION {[1..n -> Labels] : n \in 0..MaxEvents}

\* an event dictionary with all four columns the renderer reads
EventDict(labels) ==
    [dates       |-> [i \in DOMAIN labels |-> 100 * i - 150],
     label       |-> labels,
     title       |-> [i \in DOMAIN labels |-> "event"],
     description |-> [i \in DOMAIN labels |-> "text"]]

\* an event dictionary whose 'label' key is absent
EventDictNoLabel ==
    [dates       |-> <<-44>>,
     title       |-> <<"event">>,
     description |-> <<"text">>]

EventDicts == {EventDict(l) : l \in LabelColumns} \cup {EventDictNoLabel}

PeriodGroup ==
    [start |-> <<-27>>, end |-> <<476>>, mid |-> <<224>>, title |-> <<"era">>]

PeriodLists == {[i \in 1..n |-> PeriodGroup] : n \in 0..MaxPeriods}

Timelines ==
    [title : {"Rome"}, events : EventDicts, periods : PeriodLists]

\* HistoricalTimeline.create_event_dict / create_period_list: the accessors
\* of the collaborator, which hand out the event mapping and period groups
create_event_dict(tl) == tl.events

create_period_list(tl) == tl.periods

\* ------------------------------------------------ results of a Python call
Ok(v) == [exc |-> "none", val |-> v]

Raise(e) == [exc |-> e, val |-> None]

\* ------------------------------------------------------------ the methods
\* ColumnDataSource(data=event_dict)
get_source_from_event_dict(event_dict) ==
    [kind |-> "ColumnDataSource", data |-> event_dict]

\* figure(**kwargs), then fig.toolbar.logo = None
setup_figure(kwargs) ==
    [kind                  |-> "figure",
     title                 |-> kwargs.title,
     x_axis_label          |-> kwargs.x_axis_label,
     y_axis_label          |-> kwargs.y_axis_label,
     height                |-> kwargs.height,
     width                 |-> kwargs.width,
     y_range               |-> kwargs.y_range,
     background_fill_color |-> kwargs.background_fill_color,
     border_fill_color     |-> kwargs.border_fill_color,
     background_fill_alpha |-> kwargs.background_fill_alpha,
     border_fill_alpha     |-> kwargs.border_fill_alpha,
     tools                 |-> kwargs.tools,
     logo                  |-> None,
     renderers             |-> <<>>,
     layouts               |-> <<>>,
     formatter             |-> [kind |-> "BasicTickFormatter", code |-> ""]]

\* mutant: rows numbered from 1
PeriodRow_OneBased(i) == "p" \o str(i + 1)

\* "p" + str(i), the synthetic row of period i (i counts from 0)
PeriodRow(i) == "p" \o str(i)

\* mutant: the loop runs once too often
PeriodRows_OneMore(period_list) ==
    [k \in 1..(Len(period_list) + 1) |-> "p" \o str(k - 1)]

\* the first loop of get_y_range: one row per index of period_list
PeriodRows(period_list) ==
    [k \in 1..Len(period_list) |-> PeriodRow(k - 1)]

\* mutant: labels are tested against the labels seen so far only, not
\* against the period rows
RECURSIVE DistinctLabels(_)
DistinctLabels(labels) ==
    IF labels = <<>> THEN <<>>
    ELSE LET d == DistinctLabels(SubSeq(labels, 1, Len(labels) - 1))
         IN  IF In(labels[Len(labels)], d) THEN d
             ELSE Append(d, labels[Len(labels)])

AppendLabels_SeenLabelsOnly(y_range, labels) ==
    y_range \o DistinctLabels(labels)

\* mutant: every label is appended, the membership test forgotten
AppendLabels_NoCheck(y_range, labels) == y_range \o labels

\* the second loop of get_y_range: labels not yet in y_range are appended
RECURSIVE AppendLabels(_, _)
AppendLabels(y_range, labels) ==
    IF labels = <<>> THEN y_range
    ELSE AppendLabels(IF In(Head(labels), y_range)
                        THEN y_range
                        ELSE Append(y_range, Head(labels)),
                      Tail(labels))

\* mutant: an absent 'label' key is read as an empty column
get_y_range_DefaultsEmpty(event_dict, period_list) ==
    Ok(AppendLabels(PeriodRows(period_list),
                    IF "label" \in DOMAIN event_dict
                      THEN event_dict.label ELSE <<>>))

\* event_dict['label'] raises KeyError when the key is absent
get_y_range(event_dict, period_list) ==
    IF "label" \notin DOMAIN event_dict
      THEN Raise("KeyError")
      ELSE Ok(AppendLabels(PeriodRows(period_list), event_dict.label))

\* a glyph or label coordinate: a column name of the source, or value(v)
Field(name) == [kind |-> "field", v |-> name]

Value(v) == [kind |-> "value", v |-> v]

\* plot.scatter(x=x, y=y, size=size, source=source, color=self.event_color)
render_events(slf, plot, source, x, y, size) ==
    [plot EXCEPT !.renderers =
        Append(@, [glyph |-> "scatter", x |-> Field(x), y |-> Field(y),
                   size |-> size, color |-> slf.event_color,
                   source |-> source])]

\* plot.hover.tooltips = tooltips: set on every HoverTool among the plot's
\* tools (none when the plot has no hover tool)
RECURSIVE Tooltips(_)
Tooltips(tooltip_names) ==
    IF tooltip_names = <<>> THEN <<>>
    ELSE <<<<Head(tooltip_names), "@" \o Head(tooltip_names)>>>>
           \o Tooltips(Tail(tooltip_names))

event_tooltips(plot, tooltip_names) ==
    [plot EXCEPT !.tools =
        [k \in DOMAIN @ |->
            IF @[k].type = "HoverTool"
              THEN [@[k] EXCEPT !.tooltips = Tooltips(tooltip_names)]
              ELSE @[k]]]

\* plot.add_layout(LabelSet(x=x, y=y, text=text, ..., source=source))
event_labels(plot, source, x, y, text) ==
    [plot EXCEPT !.layouts =
        Append(@, [kind |-> "LabelSet", x |-> Field(x), y |-> Field(y),
                   text |-> text, y_offset |-> 0, text_font_size |-> "13px",
                   source |-> source])]

\* one hbar per index of period_list, on row value("p" + str(i))
RECURSIVE render_periods_from(_, _, _, _)
render_periods_from(slf, plot, period_list, i) ==
    IF i >= Len(period_list) THEN plot
    ELSE render_periods_from(slf,
            [plot EXCEPT !.renderers =
                Append(@, [glyph |-> "hbar", right |-> "start", left |-> "end",
                           y |-> Value(PeriodRow(i)), height |-> "0.3",
                           color |-> slf.period_color,
                           source |-> get_source_from_event_dict(period_list[i + 1])])],
            period_list, i + 1)

\* mutant: the loop starts at index 1
render_periods_SkipsFirst(slf, plot, period_list) ==
    render_periods_from(slf, plot, period_list, 1)

render_periods(slf, plot, period_list) ==
    render_periods_from(slf, plot, period_list, 0)

\* one LabelSet per index of period_list, on row value("p" + str(i))
RECURSIVE period_labels_from(_, _, _, _)
period_labels_from(plot, period_list, text, i) ==
    IF i >= Len(period_list) THEN plot
    ELSE period_labels_from(
            [plot EXCEPT !.layouts =
                Append(@, [kind |-> "LabelSet", x |-> Field("mid"),
                           y |-> Value(PeriodRow(i)), text |-> text,
                           y_offset |-> -8, text_font_size |-> "11px",
                           source |-> get_source_from_event_dict(period_list[i + 1])])],
            period_list, text, i + 1)

period_labels(plot, period_list, text) ==
    period_labels_from(plot, period_list, text, 0)

\* the JavaScript given to CustomJSTickFormatter
CodeBCE == "return tick < 0 ? Math.abs(tick) + \" BCE\" : tick +  \" CE\""

CodeBC == "return tick < 0 ? Math.abs(tick) + \" BC\" : tick +  \" AD\""

\* mutant: the scientific flag is ignored
format_xaxis_IgnoresFlag(plot, scientific) ==
    [plot EXCEPT !.formatter =
        [kind |-> "CustomJSTickFormatter", code |-> CodeBC]]

\* plot.xaxis.formatter = CustomJSTickFormatter(code=code)
format_xaxis(plot, scientific) ==
    [plot EXCEPT !.formatter =
        [kind |-> "CustomJSTickFormatter",
         code |-> IF scientific THEN CodeBCE ELSE CodeBC]]

\* what the JavaScript of a formatter returns for a tick
RunTickCode(code, tick) ==
    CASE code = CodeBCE ->
           IF tick < 0 THEN str(abs(tick)) \o " BCE" ELSE str(tick) \o " CE"
      [] code = CodeBC ->
           IF tick < 0 THEN str(abs(tick)) \o " BC" ELSE str(tick) \o " AD"
      [] OTHER -> str(tick)

\* render_timeline: Ok(the figure), or the exception of get_y_range
render_timeline(slf) ==
    LET event_dict  == create_event_dict(slf.tl)
        period_list == create_period_list(slf.tl)
        source      == get_source_from_event_dict(event_dict)
        y_range     == get_y_range(event_dict, period_list)
    IN  IF y_range.exc # "none" THEN y_range
        ELSE
        LET p0 == setup_figure(
                    [title                 |-> slf.tl.title,
                     x_axis_label          |-> "year",
                     y_axis_label          |-> "category",
                     height                |-> 400,
                     width                 |-> 1600,
                     y_range               |-> y_range.val,
                     background_fill_color |-> slf.bg_color,
                     border_fill_color     |-> slf.bg_color,
                     background_fill_alpha |-> slf.bg_alpha,
                     border_fill_alpha     |-> slf.bg_alpha,
                     tools                 |-> slf.tools])
            p1 == event_tooltips(p0, <<"title", "description">>)
            p2 == render_events(slf, p1, source, "dates", "label", 20)
            p3 == render_periods(slf, p2, period_list)
            p4 == period_labels(p3, period_list, "title")
            p5 == event_labels(p4, source, "dates", "label", "title")
            p6 == format_xaxis(p5, FALSE)
        IN  Ok(p6)

\* ------------------------------------------------------------- variables
VARIABLES
    self,    \* the renderer's fields
    fig,     \* the figure the client holds (from render_timeline), or None
    ncalls,  \* glyph/label-set calls made directly on fig
    pc,      \* "idle", "output_210", "done", "raised"
    op,      \* the method being called
    args,    \* its arguments
    p,       \* local p of output_timeline
    ret,     \* the value returned
    exc,     \* the exception that left the call, "none" if none
    io       \* bokeh show/save calls made by the call in progress

vars == <<self, fig, ncalls, pc, op, args, p, ret, exc, io>>

\* ------------------------------------------------------------ construction
\* __init__: the fields are set from the arguments; tools is a fixed list
new_renderer(tl, bg_color, bg_alpha, period_color, event_color) ==
    [tl           |-> tl,
     bg_color     |-> bg_color,
     bg_alpha     |-> bg_alpha,
     period_color |-> period_color,
     event_color  |-> event_color,
     tools        |-> <<[type |-> "BoxZoomTool"],
                        [type |-> "ResetTool"],
                        [type |-> "PanTool", dimensions |-> "width"]>>]

Init ==
    /\ \E tl \in Timelines, event_color \in {"blue", "green"} :
          self = new_renderer(tl, "white", 1, "red", event_color)
    /\ fig = None
    /\ ncalls = 0
    /\ pc = "idle"
    /\ op = "none"
    /\ args = None
    /\ p = None
    /\ ret = None
    /\ exc = "none"
    /\ io = <<>>

\* ---------------------------------------------------------------- actions
\* a client calls render_timeline() and keeps the figure it returns
CallRenderTimeline ==
    /\ pc = "idle"
    /\ op' = "render_timeline"
    /\ args' = None
    /\ LET r == render_timeline(self)
       IN  IF r.exc = "none"
             THEN /\ pc' = "done"
                  /\ ret' = r.val
                  /\ fig' = r.val
                  /\ ncalls' = 0
                  /\ exc' = "none"
             ELSE /\ pc' = "raised"
                  /\ exc' = r.exc
                  /\ UNCHANGED <<ret, fig, ncalls>>
    /\ UNCHANGED <<self, p, io>>

\* output_timeline(output, show_timeline), line 209: p = self.render_timeline()
CallOutputTimeline(output, show_timeline) ==
    /\ pc = "idle"
    /\ op' = "output_timeline"
    /\ args' = [output |-> output, show_timeline |-> show_timeline]
    /\ LET r == render_timeline(self)
       IN  IF r.exc = "none"
             THEN /\ pc' = "output_210"
                  /\ p' = r.val
                  /\ exc' = "none"
             ELSE /\ pc' = "raised"
                  /\ exc' = r.exc
                  /\ p' = p
    /\ UNCHANGED <<self, fig, ncalls, ret, io>>

\* output_timeline, lines 210-211: show(p, title=self.tl.title); the method
\* ends without a return statement
OutputShow ==
    /\ pc = "output_210"
    /\ args.show_timeline
    /\ io' = Append(io, [call |-> "show", obj |-> p, filename |-> "",
                         title |-> self.tl.title])
    /\ ret' = None
    /\ pc' = "done"
    /\ UNCHANGED <<self, fig, ncalls, op, args, p, exc>>

\* mutant: the figure is saved and shown
OutputSave_AlsoShows ==
    /\ pc = "output_210"
    /\ ~args.show_timeline
    /\ io' = io \o <<[call |-> "save", obj |-> p, filename |-> args.output,
                      title |-> self.tl.title],
                     [call |-> "show", obj |-> p, filename |-> "",
                      title |-> self.tl.title]>>
    /\ ret' = None
    /\ pc' = "done"
    /\ UNCHANGED <<self, fig, ncalls, op, args, p, exc>>

\* output_timeline, lines 212-213: save(p, output, title=self.tl.title); the
\* method ends without a return statement
OutputSave ==
    /\ pc = "output_210"
    /\ ~args.show_timeline
    /\ io' = Append(io, [call |-> "save", obj |-> p, filename |-> args.output,
                         title |-> self.tl.title])
    /\ ret' = None
    /\ pc' = "done"
    /\ UNCHANGED <<self, fig, ncalls, op, args, p, exc>>

\* a client calls get_y_range on the timeline's event dictionary and periods
CallGetYRange ==
    /\ pc = "idle"
    /\ op' = "get_y_range"
    /\ args' = [event_dict  |-> create_event_dict(self.tl),
                period_list |-> create_period_list(self.tl)]
    /\ LET r == get_y_range(create_event_dict(self.tl),
                            create_period_list(self.tl))
       IN  IF r.exc = "none"
             THEN /\ pc' = "done"
                  /\ ret' = [kind |-> "list", val |-> r.val]
                  /\ exc' = "none"
             ELSE /\ pc' = "raised"
                  /\ exc' = r.exc
                  /\ ret' = ret
    /\ UNCHANGED <<self, fig, ncalls, p, io>>

\* a client calls format_xaxis(fig, scientific), which returns the plot
CallFormatXaxis(scientific) ==
    /\ pc = "idle"
    /\ fig # None
    /\ op' = "format_xaxis"
    /\ args' = [scientific |-> scientific]
    /\ fig' = format_xaxis(fig, scientific)
    /\ ret' = fig'
    /\ pc' = "done"
    /\ UNCHANGED <<self, ncalls, p, exc, io>>

\* mutant: a hover tool is added to the renderer's own tool list
CallEventTooltips_AddsHover ==
    /\ pc = "idle"
    /\ fig # None
    /\ op' = "event_tooltips"
    /\ args' = [tooltip_names |-> <<"title", "description">>]
    /\ self' = [self EXCEPT !.tools = Append(@, [type |-> "HoverTool"])]
    /\ fig' = event_tooltips(fig, <<"title", "description">>)
    /\ ret' = None
    /\ pc' = "done"
    /\ UNCHANGED <<ncalls, p, exc, io>>

\* a client calls event_tooltips(fig, ["title", "description"])
CallEventTooltips ==
    /\ pc = "idle"
    /\ fig # None
    /\ op' = "event_tooltips"
    /\ args' = [tooltip_names |-> <<"title", "description">>]
    /\ fig' = event_tooltips(fig, <<"title", "description">>)
    /\ ret' = None
    /\ pc' = "done"
    /\ UNCHANGED <<self, ncalls, p, exc, io>>

\* the calls that add a glyph or a label set to the client's figure
CallOnFigure(name, plot) ==
    /\ pc = "idle"
    /\ fig # None
    /\ ncalls < MaxCalls
    /\ op' = name
    /\ args' = None
    /\ fig' = plot
    /\ ncalls' = ncalls + 1
    /\ ret' = None
    /\ pc' = "done"
    /\ UNCHANGED <<self, p, exc, io>>

CallRenderEvents ==
    CallOnFigure("render_events",
        render_events(self, fig,
            get_source_from_event_dict(create_event_dict(self.tl)),
            "dates", "label", 20))

CallRenderPeriods ==
    CallOnFigure("render_periods",
        render_periods(self, fig, create_period_list(self.tl)))

CallPeriodLabels ==
    CallOnFigure("period_labels",
        period_labels(fig, create_period_list(self.tl), "title"))

CallEventLabels ==
    CallOnFigure("event_labels",
        event_labels(fig,
            get_source_from_event_dict(create_event_dict(self.tl)),
            "dates", "label", "title"))

\* the call is over: its result or exception has reached the client
Return ==
    /\ pc \in {"done", "raised"}
    /\ pc' = "idle"
    /\ op' = "none"
    /\ args' = None
    /\ p' = None
    /\ ret' = None
    /\ exc' = "none"
    /\ io' = <<>>
    /\ UNCHANGED <<self, fig, ncalls>>

Next ==
    \/ CallRenderTimeline
    \/ \E output \in {"out.html"}, show_timeline \in BOOLEAN :
          CallOutputTimeline(output, show_timeline)
    \/ OutputShow
    \/ OutputSave
    \/ CallGetYRange
    \/ \E scientific \in BOOLEAN : CallFormatXaxis(scientific)
    \/ CallEventTooltips
    \/ CallRenderEvents
    \/ CallRenderPeriods
    \/ CallPeriodLabels
    \/ CallEventLabels
    \/ Return

Spec == Init /\ [][Next]_vars

\* ------------------------------------------------- vocabulary of the claims
Ticks == -MaxTick..MaxTick

NoDuplicates(y) == \A i, j \in DOMAIN y : i # j => y[i] # y[j]

Count(y, x) == Cardinality({k \in DOMAIN y : y[k] = x})

\* the synthetic identifier of period i, i counting from 0
SyntheticId(i) == "p" \o str(i)

SyntheticIds(n) == {SyntheticId(i) : i \in 0..(n - 1)}

FirstIndex(x, s) ==
    CHOOSE i \in DOMAIN s : s[i] = x /\ \A j \in 1..(i - 1) : s[j] # x

\* y lists each distinct element of s once, in the order of first occurrence
DistinctInOrder(s, y) ==
    /\ NoDuplicates(y)
    /\ Range(y) = Range(s)
    /\ \A i, j \in DOMAIN y :
          i < j => FirstIndex(y[i], s) < FirstIndex(y[j], s)

\* the rows a glyph or label set is drawn on
Rows(g) ==
    IF g.y.kind = "value" THEN {g.y.v}
    ELSE IF g.y.v \in DOMAIN g.source.data THEN Range(g.source.data[g.y.v])
    ELSE {}

\* what the call in progress was given by the timeline
TheEvents == create_event_dict(self.tl)

ThePeriods == create_period_list(self.tl)

HasLabels == "label" \in DOMAIN TheEvents

\* render_timeline has produced a chart, directly or inside output_timeline
Rendered ==
    \/ op = "render_timeline" /\ pc = "done"
    \/ op = "output_timeline" /\ pc \in {"output_210", "done"}

Chart == IF op = "render_timeline" THEN ret ELSE p

Bars(chart) == SelectSeq(chart.renderers, LAMBDA g : g.glyph = "hbar")

Markers(chart) == SelectSeq(chart.renderers, LAMBDA g : g.glyph = "scatter")

PeriodLabelSets(chart) == SelectSeq(chart.layouts, LAMBDA l : l.y.kind = "value")

EventLabelSets(chart) == SelectSeq(chart.layouts, LAMBDA l : l.y.kind = "field")

\* figure built; events, periods, labels and tick formatter attached
Complete(chart) ==
    /\ chart.kind = "figure"
    /\ Len(Markers(chart)) = 1
    /\ Len(Bars(chart)) = Len(ThePeriods)
    /\ Len(PeriodLabelSets(chart)) = Len(ThePeriods)
    /\ Len(EventLabelSets(chart)) = 1
    /\ chart.formatter.kind = "CustomJSTickFormatter"

\* ------------------------------------------------------------------ claims
\* C1 as stated: get_y_range returns one synthetic row id per period, in
\* index order, followed by each distinct event label in first-occurrence
\* order, and the list has no duplicates.
C1_AsStated ==
    (op = "get_y_range" /\ pc = "done") =>
        LET y == ret.val
            n == Len(args.period_list)
        IN  /\ Len(y) >= n
            /\ \A k \in 1..n : y[k] = SyntheticId(k - 1)
            /\ DistinctInOrder(args.event_dict.label, SubSeq(y, n + 1, Len(y)))
            /\ NoDuplicates(y)

\* C1 amended: get_y_range returns one synthetic row id per period, in index
\* order, followed by each distinct event label that is not one of those ids,
\* in first-occurrence order, and the list has no duplicates.
C1_YRange ==
    (op = "get_y_range" /\ pc = "done") =>
        LET y == ret.val
            n == Len(args.period_list)
            others == SelectSeq(args.event_dict.label,
                                LAMBDA l : l \notin SyntheticIds(n))
        IN  /\ Len(y) >= n
            /\ \A k \in 1..n : y[k] = SyntheticId(k - 1)
            /\ DistinctInOrder(others, SubSeq(y, n + 1, Len(y)))
            /\ NoDuplicates(y)

\* witness of C1: get_y_range has returned for two periods and a label column
\* that repeats a label and holds a label equal to a period's id
C1_Witness ==
    /\ op = "get_y_range" /\ pc = "done"
    /\ Len(args.period_list) = 2
    /\ args.event_dict.label = <<"a", "p1", "a">>
    /\ ret.val = <<"p0", "p1", "a">>

\* C2: the formatter format_xaxis installs maps a negative tick to
\* "<abs> BC" and a non-negative tick to "<value> AD" when scientific is
\* false, "<abs> BCE" and "<value> CE" when it is true.
C2_TickFormat ==
    (op = "format_xaxis" /\ pc = "done") =>
        \A tick \in Ticks :
            RunTickCode(ret.formatter.code, tick) =
                IF tick < 0
                  THEN str(-tick) \o (IF args.scientific THEN " BCE" ELSE " BC")
                  ELSE str(tick) \o (IF args.scientific THEN " CE" ELSE " AD")

\* witness of C2: format_xaxis has returned with scientific true, and its
\* formatter gives "12 BCE" for -12 and "0 CE" for 0
C2_Witness ==
    /\ op = "format_xaxis" /\ pc = "done"
    /\ args.scientific
    /\ RunTickCode(ret.formatter.code, -12) = "12 BCE"
    /\ RunTickCode(ret.formatter.code, 0) = "0 CE"

\* C3: with no periods and at least one event, the chart's y-range is the
\* event labels alone, each once, in first-occurrence order.
C3_NoPeriods ==
    (Rendered /\ ThePeriods = <<>> /\ TheEvents.label # <<>>) =>
        /\ DistinctInOrder(TheEvents.label, Chart.y_range)
        /\ Len(Chart.y_range) = Cardinality(Range(TheEvents.label))

\* witness of C3: a chart rendered from no periods and the labels p0, a, p0
C3_Witness ==
    /\ Rendered
    /\ ThePeriods = <<>>
    /\ TheEvents.label = <<"p0", "a", "p0">>
    /\ Chart.y_range = <<"p0", "a">>

\* C4: with at least one period and one event, the y-range is as long as the
\* number of periods plus the number of distinct event labels that are not a
\* period's synthetic id.
C4_Length ==
    (Rendered /\ Len(ThePeriods) >= 1 /\ TheEvents.label # <<>>) =>
        Len(Chart.y_range) =
            Len(ThePeriods)
            + Cardinality(Range(TheEvents.label) \ SyntheticIds(Len(ThePeriods)))

\* witness of C4: one period, labels p1, p0, a: one label is the period's id
C4_Witness ==
    /\ Rendered
    /\ Len(ThePeriods) = 1
    /\ TheEvents.label = <<"p1", "p0", "a">>
    /\ Len(Chart.y_range) = 3

\* C5: output_timeline completes the whole render before any output, then
\* performs exactly one output call: show if show_timeline, else save to the
\* given path.
C5_OneOutput ==
    /\ (op = "output_timeline" /\ pc = "output_210") =>
          (io = <<>> /\ Complete(p))
    /\ (op = "output_timeline" /\ pc = "done") =>
          /\ Len(io) = 1
          /\ io[1].obj = p
          /\ Complete(io[1].obj)
          /\ io[1].call = (IF args.show_timeline THEN "show" ELSE "save")
          /\ ~args.show_timeline => io[1].filename = args.output

\* witness of C5: output_timeline has saved a chart with two period bars
C5_Witness ==
    /\ op = "output_timeline" /\ pc = "done"
    /\ ~args.show_timeline
    /\ Len(io) = 1 /\ io[1].call = "save"
    /\ Len(Bars(io[1].obj)) = 2

\* C6 as stated: output_timeline returns the figure render_timeline produced.
C6_ReturnsFigure ==
    (op = "output_timeline" /\ pc = "done") => ret = p

\* C7: an event label equal to the id of an existing period raises no error,
\* is no separate row of the y-range, and the event's marker and label are
\* drawn on the row of that period's bar.
C7_Collision ==
    \A i \in 0..(Len(ThePeriods) - 1) :
        (/\ op \in {"render_timeline", "output_timeline"}
         /\ HasLabels
         /\ In(SyntheticId(i), TheEvents.label)) =>
            /\ pc # "raised"
            /\ exc = "none"
            /\ Count(Chart.y_range, SyntheticId(i)) = 1
            /\ Chart.y_range[i + 1] = SyntheticId(i)
            /\ Rows(Bars(Chart)[i + 1]) = {SyntheticId(i)}
            /\ SyntheticId(i) \in Rows(Markers(Chart)[1])
            /\ SyntheticId(i) \in Rows(EventLabelSets(Chart)[1])

\* witness of C7: a chart with two periods and an event labelled p1
C7_Witness ==
    /\ Rendered
    /\ Len(ThePeriods) = 2
    /\ TheEvents.label = <<"a", "p1">>
    /\ Chart.y_range = <<"p0", "p1", "a">>

\* C8: when the event mapping has no 'label' key, the KeyError of the y-range
\* computation leaves render_timeline and output_timeline unchanged: no figure
\* is returned and neither save nor show is performed.
C8_Propagates ==
    (op \in {"render_timeline", "output_timeline"} /\ ~HasLabels) =>
        /\ pc = "raised"
        /\ exc = "KeyError"
        /\ ret = None
        /\ p = None
        /\ fig = None
        /\ io = <<>>

\* witness of C8: output_timeline has raised on a mapping without 'label'
C8_Witness ==
    /\ op = "output_timeline"
    /\ ~HasLabels
    /\ pc = "raised"
    /\ exc = "KeyError"

\* C9: no call changes the renderer's fields (tl, bg_color, bg_alpha,
\* period_color, event_color, tools) or the timeline's event dictionary and
\* period list.
C9_FieldsFrozen == [][self' = self]_vars

\* witness of C9: a client has rendered, then added a glyph or label set to
\* the figure itself
C9_Witness ==
    /\ pc = "done"
    /\ op \in {"render_events", "render_periods", "period_labels", "event_labels"}
    /\ ncalls = 1
    /\ self.event_color = "green"

\* C10: in a chart of render_timeline every drawn element sits on a row of
\* the y-range, and the bar and the label of period i both use row "p<i>",
\* the element at position i of the y-range.
C10_RowsInRange ==
    Rendered =>
        /\ \A k \in DOMAIN Chart.renderers :
              Rows(Chart.renderers[k]) \subseteq Range(Chart.y_range)
        /\ \A k \in DOMAIN Chart.layouts :
              Rows(Chart.layouts[k]) \subseteq Range(Chart.y_range)
        /\ Len(Bars(Chart)) = Len(ThePeriods)
        /\ Len(PeriodLabelSets(Chart)) = Len(ThePeriods)
        /\ \A i \in 0..(Len(ThePeriods) - 1) :
              /\ Bars(Chart)[i + 1].y = Value(SyntheticId(i))
              /\ PeriodLabelSets(Chart)[i + 1].y = Value(SyntheticId(i))
              /\ Chart.y_range[i + 1] = SyntheticId(i)

\* witness of C10: a chart with two periods and three events
C10_Witness ==
    /\ Rendered
    /\ Len(ThePeriods) = 2
    /\ Len(TheEvents.label) = 3
    /\ Len(Chart.renderers) = 3
    /\ Len(Chart.layouts) = 3

====
